---- MODULE Spec2Model ----
(***************************************************************************)
(* A model of lib/IRRClient.py: the RouteSet container and the IRRClient   *)
(* session (connect / handshake, _send, _response, the cache and the       *)
(* query operations).                                                      *)
(*                                                                         *)
(* Text is modelled character by character: a Python str is a sequence of  *)
(* one-character strings, so that rstrip, split, upper, lstrip, int and    *)
(* len are computed as Python computes them.                                *)
(***************************************************************************)
EXTENDS Integers, Sequences, FiniteSets, TLC

----------------------------------------------------------------------------
(* Python str primitives                                                    *)

WS == {" ", "\n", "\t", "\r"}

DigitChars == <<"0", "1", "2", "3", "4", "5", "6", "7", "8", "9">>

LowerChars == <<"a", "b", "c", "d", "e", "f", "g", "h", "i", "j", "k", "l", "m",
                "n", "o", "p", "q", "r", "s", "t", "u", "v", "w", "x", "y", "z">>

UpperChars == <<"A", "B", "C", "D", "E", "F", "G", "H", "I", "J", "K", "L", "M",
                "N", "O", "P", "Q", "R", "S", "T", "U", "V", "W", "X", "Y", "Z">>

IsDigit(c) == \E i \in 1..Len(DigitChars) : DigitChars[i] = c

DigitVal(c) == (CHOOSE i \in 1..Len(DigitChars) : DigitChars[i] = c) - 1

\* str.rstrip(): drop trailing whitespace
RECURSIVE rstrip(_)
rstrip(t) ==
  IF t # <<>> /\ t[Len(t)] \in WS THEN rstrip(SubSeq(t, 1, Len(t) - 1)) ELSE t

\* str.lstrip(chars): drop every leading character that is in chars
RECURSIVE lstrip(_, _)
lstrip(t, chars) ==
  IF t # <<>> /\ t[1] \in chars THEN lstrip(Tail(t), chars) ELSE t

\* str.upper()
upper(t) ==
  [i \in 1..Len(t) |->
     IF \E k \in 1..Len(LowerChars) : LowerChars[k] = t[i]
     THEN UpperChars[CHOOSE k \in 1..Len(LowerChars) : LowerChars[k] = t[i]]
     ELSE t[i]]

\* str.split(): the whitespace-separated tokens, in order
RECURSIVE split_from(_, _, _)
split_from(t, i, cur) ==
  IF i > Len(t) THEN (IF cur = <<>> THEN <<>> ELSE <<cur>>)
  ELSE IF t[i] \in WS
       THEN (IF cur = <<>> THEN <<>> ELSE <<cur>>) \o split_from(t, i + 1, <<>>)
       ELSE split_from(t, i + 1, Append(cur, t[i]))

split(t) == split_from(t, 1, <<>>)

\* sub in t  (substring test)
contains(t, sub) ==
  \E i \in 1..(Len(t) - Len(sub) + 1) : SubSeq(t, i, i + Len(sub) - 1) = sub

\* int(text): surrounding whitespace is ignored, an optional sign, then
\* one or more decimal digits; anything else is a ValueError
int_digits(t) ==
  LET u == lstrip(rstrip(t), WS)
  IN  IF u # <<>> /\ u[1] \in {"+", "-"} THEN Tail(u) ELSE u

int_ok(t) ==
  LET d == int_digits(t)
  IN  d # <<>> /\ \A i \in 1..Len(d) : IsDigit(d[i])

RECURSIVE digits_val(_)
digits_val(d) ==
  IF d = <<>> THEN 0
  ELSE 10 * digits_val(SubSeq(d, 1, Len(d) - 1)) + DigitVal(d[Len(d)])

int_val(t) ==
  LET u == lstrip(rstrip(t), WS)
      m == digits_val(int_digits(t))
  IN  IF u[1] = "-" THEN 0 - m ELSE m

\* "%s" % n for an integer n
RECURSIVE nat_str(_)
nat_str(n) ==
  IF n < 10 THEN <<DigitChars[n + 1]>>
  ELSE Append(nat_str(n \div 10), DigitChars[(n % 10) + 1])

int_str(n) == IF n < 0 THEN <<"-">> \o nat_str(0 - n) ELSE nat_str(n)

----------------------------------------------------------------------------
(* IPy: IP(item, make_net=True) and IPSet.  A network is the triple        *)
(* (version, prefix length l, value p of its first l bits), which is what  *)
(* make_net=True keeps of a literal.  The literals understood are the      *)
(* dotted quad "a.b.c.d" and "::", each with an optional "/len"; every     *)
(* other token is a ValueError, as it is for IPy on the tokens used here.  *)

RECURSIVE split_at(_, _, _)
split_at(t, sep, cur) ==
  IF t = <<>> THEN <<cur>>
  ELSE IF t[1] = sep THEN <<cur>> \o split_at(Tail(t), sep, <<>>)
       ELSE split_at(Tail(t), sep, Append(cur, t[1]))

all_digits(t) == t # <<>> /\ \A i \in 1..Len(t) : IsDigit(t[i])

RECURSIVE shr(_, _)
shr(p, k) == IF k <= 0 \/ p = 0 THEN p ELSE shr(p \div 2, k - 1)

IP_parts(tok) ==
  LET sl   == split_at(tok, "/", <<>>)
      addr == sl[1]
      six  == addr = <<":", ":">>
      oct  == split_at(addr, ".", <<>>)
      quad == Len(oct) = 4 /\ \A i \in 1..4 : all_digits(oct[i]) /\ digits_val(oct[i]) <= 255
      bits == IF six THEN 128 ELSE 32
      okl  == Len(sl) = 1 \/ (Len(sl) = 2 /\ all_digits(sl[2]) /\ digits_val(sl[2]) <= bits)
      plen == IF Len(sl) = 2 THEN digits_val(sl[2]) ELSE bits
      a32  == IF quad
              THEN ((digits_val(oct[1]) * 256 + digits_val(oct[2])) * 256
                     + digits_val(oct[3])) * 256 + digits_val(oct[4])
              ELSE 0
  IN  [ok |-> (six \/ quad) /\ okl,
       net |-> [v |-> IF six THEN 6 ELSE 4, l |-> plen, p |-> shr(a32, bits - plen)]]

\* IP(item, make_net=True) for a text item: does it parse, and to what
IP_ok(item) == IP_parts(item).ok

IP(item) == IP_parts(item).net

\* IP(n) for an integer n: the IPv4 host n
IP_of_int(n) == [v |-> 4, l |-> 32, p |-> n]

Covers(a, b) == a.v = b.v /\ a.l <= b.l /\ shr(b.p, b.l - a.l) = a.p

\* IPSet.optimize(): drop covered prefixes, merge sibling halves, repeat
RECURSIVE optimize(_)
optimize(S) ==
  LET kept  == {n \in S : ~\E m \in S : m # n /\ Covers(m, n)}
      lefts == {n \in kept : n.l > 0 /\ n.p % 2 = 0
                             /\ [n EXCEPT !.p = n.p + 1] \in kept}
  IN  IF lefts = {} THEN kept
      ELSE LET n == CHOOSE n \in lefts : TRUE
           IN  optimize((kept \ {n, [n EXCEPT !.p = n.p + 1]})
                        \cup {[v |-> n.v, l |-> n.l - 1, p |-> n.p \div 2]})

----------------------------------------------------------------------------
(* RouteSet                                                                 *)

RouteSet(aggregate) == [agg |-> aggregate, ip4 |-> {}, ip6 |-> {}]

bucket_add(agg, S, n) == IF agg THEN optimize(S \cup {n}) ELSE S \cup {n}

\* RouteSet.add, after ip = IP(item, make_net=True)
add_ip(rs, ip) ==
  IF ip.v = 4 THEN [rs EXCEPT !.ip4 = bucket_add(rs.agg, @, ip)]
  ELSE IF ip.v = 6 THEN [rs EXCEPT !.ip6 = bucket_add(rs.agg, @, ip)]
  ELSE rs

\* RouteSet.add for a text item IP() accepts
add(rs, item) == add_ip(rs, IP(item))

\* RouteSet.__len__
len(rs) == Cardinality(rs.ip4) + Cardinality(rs.ip6)

\* RouteSet.__iter__: the entries of both buckets
iter(rs) == rs.ip4 \cup rs.ip6

\* for r in items: routes.add(r), items a sequence all of whose elements parse
RECURSIVE add_all(_, _)
add_all(rs, items) ==
  IF items = <<>> THEN rs ELSE add_all(add(rs, items[1]), Tail(items))

\* for r in other: if r: routes.add(r)   (r an IP object, which is always
\* true, and which IP() copies unchanged)
RECURSIVE add_set(_, _)
add_set(rs, S) ==
  IF S = {} THEN rs
  ELSE LET n == CHOOSE n \in S : TRUE IN add_set(add_ip(rs, n), S \ {n})

\* an IP object, as add makes of its argument, and a literal as it is given
IPItem(ip) == [t |-> "ip", ip |-> ip, s |-> <<>>]
StrItem(text) == [t |-> "str", ip |-> IP_of_int(0), s |-> text]

\* x in S for a set() of IP objects: by hash and ==, and an IP object
\* equals nothing that is not one
in_set(S, item) == item.t = "ip" /\ item.ip \in S

\* x in S for an IPSet: an IP object is looked up among the prefixes that
\* can hold it; for a str the comparisons IPy makes (bisect over IP
\* objects, then IP.__contains__) decide, and they may find it, miss it or
\* raise TypeError
in_IPSet(S, item) ==
  IF item.t = "ip" THEN {IF \E p \in S : Covers(p, item.ip) THEN "True" ELSE "False"}
  ELSE {"True", "False", "TypeError"}

\* RouteSet.__contains__(item): item in self.ip4 or item in self.ip6, on
\* item as it is given; the outcomes it can have
__contains__(rs, item) ==
  IF rs.agg
  THEN LET r4 == in_IPSet(rs.ip4, item)
       IN  (r4 \ {"False"}) \cup (IF "False" \in r4 THEN in_IPSet(rs.ip6, item) ELSE {})
  ELSE {IF in_set(rs.ip4, item) \/ in_set(rs.ip6, item) THEN "True" ELSE "False"}

----------------------------------------------------------------------------
(* Python values                                                            *)

PyBool(b) == [t |-> "bool", b |-> b, s |-> <<>>]
PyStr(x)  == [t |-> "str", b |-> FALSE, s |-> x]
PyInt(n)  == [t |-> "int", b |-> FALSE, s |-> <<>>, n |-> n]

\* truth value of what _response returns (True, False or a str)
truthy(v) == IF v.t = "bool" THEN v.b ELSE v.s # <<>>

\* self.lastcommand = None
NoCommand == <<"None">>

\* cache keys: an int (origin) or a str (set name) in the one dict
KeyInt(n) == [k |-> "int", n |-> n, s |-> <<>>]
KeyStr(x) == [k |-> "str", n |-> 0, s |-> x]

\* the key a value is in the dict, and its text under "%s"
key_of(v) == IF v.t = "int" THEN KeyInt(v.n) ELSE KeyStr(v.s)

text_of(v) == IF v.t = "int" THEN int_str(v.n) ELSE v.s

----------------------------------------------------------------------------
(* The commands the client writes                                           *)

cmd_multi == <<"!", "!", "\n">>

cmd_identify == <<"!", "n", "i", "r", "r", "p", "t", "-", "n", "g", "\n">>

cmd_set_sources(sources) == <<"!", "s", "-">> \o sources \o <<"\n">>

cmd_get_sources == <<"!", "s", "-", "l", "c", "\n">>

cmd_g(origin) == <<"!", "g", "A", "S">> \o int_str(origin) \o <<"\n">>

cmd_6(origin) == <<"!", "6", "A", "S">> \o int_str(origin) \o <<"\n">>

cmd_i(name, recursive) ==
  <<"!", "i">> \o name \o (IF recursive THEN <<",", "1">> ELSE <<>>) \o <<"\n">>

----------------------------------------------------------------------------
(* The inputs: what callers pass and what the server may put on a line      *)

MaxCalls == 3

Origins ==
  { PyInt(1),
    [t |-> "str", b |-> FALSE, s |-> <<"2">>, n |-> 0],
    [t |-> "str", b |-> FALSE, s |-> <<"n", "o", "t", "a", "n", "u", "m", "b", "e", "r">>, n |-> 0] }

SetNames == { <<"A", "S", "-", "X">> }

\* what callers pass to get_data_by_set as s: a set name, or a number
SetArgs ==
  { [t |-> "str", b |-> FALSE, s |-> name, n |-> 0] : name \in SetNames } \cup { PyInt(1) }

Sources == { <<"R", "A", "D", "B">> }

EOF == <<>>

HeaderLines ==
  { <<"C", "\n">>, <<"D", "\n">>, <<"E", "\n">>,
    <<"F", " ", "b", "a", "d", "\n">>,
    <<"\n">>, <<"X", "\n">>, <<"A", "x", "\n">>,
    <<"A", "0", "\n">>, <<"A", "-", "1", "\n">>,
    <<"A", "4", "\n">>, <<"A", "5", "\n">> }

BodyLines ==
  { <<"A", "S", "1", "\n">>,
    <<"a", "s", "2", " ", "A", "S", "1", "\n">>,
    <<"2", ".", "0", ".", "0", ".", "0", "/", "8", "\n">>,
    <<"3", ".", "0", ".", "0", ".", "0", "/", "8", "\n">>,
    <<":", ":", "/", "1", "\n">>,
    <<"C", "\n">> }

FooterLines == { <<"C", "\n">> }

----------------------------------------------------------------------------
(* State                                                                    *)

VARIABLES
  caching, aggregate, ipv6,  \* the session's flags
  ipv6_arg,                  \* the ipv6 argument the session was constructed with
  s, f, eof,                 \* socket, its file, and whether the file is at end of input
  cache,                     \* self._cache
  lastcommand,               \* self.lastcommand
  op, arg,                   \* the public operation being executed, and its argument
  pc, site, pending,         \* position; the call site waiting for _response; command to _send
  rd,                        \* _response: header, datalen, data, the lines read
  ret,                       \* what the last _response returned
  fr,                        \* get_routes_by_origin: origin, routes, first response
  gf,                        \* get_data_by_set: response, routes, autnums, the member loop
  sent,                      \* commands passed to sendall since the call began
  log,                       \* warnings and errors logged by the current connect/_send/_response
  result,                    \* how the last public call ended
  calls,                     \* public calls made
  known,                     \* the ASNs that a completed as-set resolution has had as members
  wire_conn, wire_sess       \* order of sends and reads, on this connection / in this session

vars == << caching, aggregate, ipv6, ipv6_arg, s, f, eof, cache, lastcommand, op, arg, pc, site,
           pending, rd, ret, fr, gf, sent, log, result, calls, known, wire_conn,
           wire_sess >>

NoArg == [x |-> <<>>, rec |-> FALSE, key |-> KeyStr(<<>>)]
NoRd  == [header |-> <<>>, datalen |-> 0, data |-> <<>>, lines |-> <<>>, nread |-> 0]
NoRet == [t |-> "none", b |-> FALSE, s |-> <<>>]
NoFr  == [origin |-> 0, routes |-> RouteSet(FALSE), r4 |-> NoRet, c4 |-> ""]
NoGf  == [response |-> NoRet, routes |-> RouteSet(FALSE), autnums |-> <<>>, idx |-> 0,
          invoked |-> <<>>, got |-> <<>>]
NoResult == [op |-> "none", arg |-> NoArg, status |-> "none", exc |-> "", t |-> "none", x |-> <<>>]

\* the arguments cache, aggregate, ipv6 sessions are constructed with: each
\* pair of cache and aggregate, and ipv6 (which no method reads) both ways
Sessions ==
  { [cache |-> c, aggregate |-> a, ipv6 |-> (c = a)] : c \in BOOLEAN, a \in BOOLEAN }

\* IRRClient.__init__: self.ipv6 = True whatever the ipv6 argument
Init ==
  /\ \E args \in Sessions :
       /\ caching = args.cache
       /\ aggregate = args.aggregate
       /\ ipv6_arg = args.ipv6
  /\ ipv6 = TRUE
  /\ s = "None" /\ f = "None" /\ eof = FALSE
  /\ cache = [k \in {} |-> RouteSet(FALSE)]
  /\ lastcommand = NoCommand
  /\ op = "idle" /\ arg = NoArg
  /\ pc = "idle" /\ site = "none" /\ pending = <<>>
  /\ rd = NoRd /\ ret = NoRet /\ fr = NoFr /\ gf = NoGf
  /\ sent = <<>> /\ log = <<>>
  /\ result = NoResult
  /\ calls = 0
  /\ known = {}
  /\ wire_conn = "new" /\ wire_sess = "new"

----------------------------------------------------------------------------
(* Helpers of the actions                                                   *)

Entry(level, msg, text) == [level |-> level, msg |-> msg, arg |-> text]

\* the order of sends and reads seen so far: after "!!" and "!n..." and one
\* read, one command and one read in turn; anything else is "bad"
WireSend(w, cmd) ==
  CASE w = "new" /\ cmd = cmd_multi -> "multi"
    [] w = "multi" /\ SubSeq(cmd, 1, 2) = <<"!", "n">> -> "ident"
    [] w = "idle" -> "await"
    [] OTHER -> "bad"

WireRead(w) == IF w \in {"ident", "await"} THEN "idle" ELSE "bad"

cfgv  == << caching, aggregate, ipv6, ipv6_arg >>
connv == << s, f, eof >>
wirev == << wire_conn, wire_sess >>

\* a public call begins
Begins ==
  /\ op = "idle"
  /\ calls < MaxCalls
  /\ calls' = calls + 1
  /\ sent' = <<>>
  /\ ret' = NoRet
  /\ rd' = NoRd

\* the public call name(a) ends: it returned a value or raised
Ends(name, a, status, exc, t, x) ==
  /\ result' = [op |-> name, arg |-> a, status |-> status, exc |-> exc, t |-> t, x |-> x]
  /\ op' = "idle" /\ arg' = NoArg
  /\ pc' = "idle" /\ site' = "none" /\ pending' = <<>>

Returns(name, a, t, x) == Ends(name, a, "returned", "", t, x)

\* an exception swallowed: the call returns False where it should raise
Raises_bug(name, a, exc) == Ends(name, a, "returned", "", "bool", FALSE)

Raises(name, a, exc) == Ends(name, a, "raised", exc, "none", <<>>)

\* the call name(a) goes on to self._send(cmd) and then, unless where is
\* "multi", to self._response()
Sends(name, a, cmd, where) ==
  /\ op' = name /\ arg' = a
  /\ pc' = "send" /\ pending' = cmd /\ site' = where
  /\ result' = NoResult

\* a lookup that never hits
_is_cached_bug(key) == FALSE

\* an empty entry taken for no entry
_is_cached_nonempty_bug(key) == caching /\ key \in DOMAIN cache /\ len(cache[key]) # 0

_is_cached(key) == caching /\ key \in DOMAIN cache

_get_cache(key) == cache[key]

\* a store that keeps nothing
_set_cache_bug(key, routes) == cache

_set_cache(key, routes) ==
  IF caching
  THEN [k \in DOMAIN cache \cup {key} |-> IF k = key THEN routes ELSE cache[k]]
  ELSE cache

----------------------------------------------------------------------------
(* connect, _multi, _identify, _send                                        *)

\* connect(): create_connection succeeds or raises socket.error
connect ==
  /\ Begins
  /\ UNCHANGED << cfgv, cache, lastcommand, wire_sess, known >>
  /\ fr' = NoFr /\ gf' = NoGf
  /\ \E connected \in BOOLEAN :
       IF connected
       THEN /\ s' = "socket" /\ f' = "file" /\ eof' = FALSE
            /\ wire_conn' = "new"
            /\ log' = <<>>
            /\ Sends("connect", NoArg, cmd_multi, "multi")
       ELSE IF s = "None"
            THEN \* self.s.close() on None, inside the except clause
                 /\ Raises("connect", NoArg, "AttributeError")
                 /\ log' = <<>>
                 /\ UNCHANGED << s, f, eof, wire_conn >>
            ELSE /\ s' = "None"
                 /\ log' = << Entry("error", "connection error: %s", <<>>),
                              Entry("error", "unable to connect to any nodes of %s:%d", <<>>) >>
                 /\ Returns("connect", NoArg, "bool", FALSE)
                 /\ UNCHANGED << f, eof, wire_conn >>

\* _identify returns without reading the response to its command
after_send_bug(where) ==
  IF where = "multi" THEN "send" ELSE IF where = "identify" THEN "resume" ELSE "header"

\* where a caller stands once _send has returned: _multi's caller goes on
\* to _identify's _send, every other caller to _response
after_send(where) == IF where = "multi" THEN "send" ELSE "header"

\* _send(output), with sendall writing or raising socket.error
send ==
  /\ pc = "send"
  /\ lastcommand' = rstrip(pending)
  /\ UNCHANGED << cfgv, connv, cache, calls, ret, fr, rd, gf, known >>
  /\ IF s = "None"
     THEN \* None has no sendall
          /\ Raises(op, arg, "AttributeError")
          /\ UNCHANGED << sent, log, wirev >>
     ELSE /\ sent' = Append(sent, pending)
          /\ wire_conn' = WireSend(wire_conn, pending)
          /\ wire_sess' = WireSend(wire_sess, pending)
          /\ \E written \in BOOLEAN :
               log' = IF written THEN <<>>
                      ELSE << Entry("error", "Unexpected write error: %s", <<>>) >>
          /\ UNCHANGED << op, arg, result >>
          /\ pc' = after_send(site)
          /\ IF site = "multi"
             THEN pending' = cmd_identify /\ site' = "identify"
             ELSE pending' = <<>> /\ site' = site

----------------------------------------------------------------------------
(* _response                                                                *)

\* an omitted D branch: "key not found" taken for success
status_outcome_bug(code, rest, lastcmd) ==
  IF code \in {"C", "D", "E"} THEN [ret |-> PyBool(TRUE), log |-> <<>>]
  ELSE [ret |-> PyBool(FALSE),
        log |-> << Entry("warning", "query failed: %s", rest) >>]

\* the four status codes without data: what is returned and what is logged
status_outcome(code, rest, lastcmd) ==
  IF code = "C" THEN [ret |-> PyBool(TRUE), log |-> <<>>]
  ELSE IF code = "D"
       THEN [ret |-> PyBool(FALSE),
             log |-> << Entry("warning", "key not found - query: %s", lastcmd) >>]
  ELSE IF code = "E" THEN [ret |-> PyBool(TRUE), log |-> <<>>]
  ELSE [ret |-> PyBool(FALSE),
        log |-> << Entry("warning", "query failed: %s", rest) >>]

\* what _response does with the header line it has read and stripped:
\* return a value, raise, or go on to read datalen characters of data
header_outcome(header, lastcmd) ==
  LET none == [kind |-> "return", ret |-> NoRet, exc |-> "", log |-> <<>>, datalen |-> 0]
  IN  IF header = <<>>
      THEN \* header[0] of the empty string
           [none EXCEPT !.kind = "raise", !.exc = "IndexError"]
      ELSE IF header[1] \in {"C", "D", "E", "F"}
           THEN LET o == status_outcome(header[1], Tail(header), lastcmd)
                IN  [none EXCEPT !.ret = o.ret, !.log = o.log]
      ELSE IF header[1] = "A"
           THEN IF int_ok(Tail(header))
                THEN [none EXCEPT !.kind = "data", !.datalen = int_val(Tail(header))]
                ELSE [none EXCEPT !.kind = "raise", !.exc = "ValueError"]
      ELSE [none EXCEPT !.ret = PyBool(FALSE),
                        !.log = << Entry("error", "parse error looking for data length", <<>>) >>]

\* an off-by-one loop condition: one line too many when the length is exact
more_data_bug(data, datalen) == Len(data) <= datalen

\* while len(data) < datalen
more_data(data, datalen) == Len(data) < datalen

\* after the loop: if len(data) != datalen: log.error(...)
length_log(data, datalen) ==
  IF Len(data) # datalen
  THEN << Entry("error", "data read doesn't match expected length", <<>>) >>
  ELSE <<>>

\* the value _response returns once the footer is read
body_value(data) == PyStr(rstrip(data))

\* self._readline(): a line the server sent, or "" at end of input (and
\* then "" for ever)
Readable(lines) == IF eof THEN {EOF} ELSE lines \cup {EOF}

\* header = self._readline().rstrip() and the dispatch on header[0]
response_header ==
  /\ pc = "header"
  /\ UNCHANGED << cfgv, s, f, cache, lastcommand, sent, calls, fr, gf, known >>
  /\ \E line \in Readable(HeaderLines) :
       LET header == rstrip(line)
           o == header_outcome(header, lastcommand)
       IN  /\ eof' = (eof \/ line = EOF)
           /\ rd' = [header |-> header, datalen |-> o.datalen, data |-> <<>>,
                     lines |-> <<>>, nread |-> 1]
           /\ IF o.kind = "raise"
              THEN /\ Raises(op, arg, o.exc)
                   /\ log' = <<>>
                   /\ ret' = NoRet
                   /\ wire_conn' = WireRead(wire_conn)
                   /\ wire_sess' = WireRead(wire_sess)
              ELSE IF o.kind = "return"
              THEN /\ ret' = o.ret
                   /\ log' = o.log
                   /\ pc' = "resume"
                   /\ wire_conn' = WireRead(wire_conn)
                   /\ wire_sess' = WireRead(wire_sess)
                   /\ UNCHANGED << op, arg, site, pending, result >>
              ELSE /\ ret' = NoRet
                   /\ IF more_data(<<>>, o.datalen)
                      THEN pc' = "body" /\ log' = <<>>
                      ELSE pc' = "footer" /\ log' = length_log(<<>>, o.datalen)
                   /\ UNCHANGED << op, arg, site, pending, result, wirev >>

\* data = data + self._readline(), one pass of the while loop; rd.lines and
\* rd.nread record the readline calls made
response_body ==
  /\ pc = "body"
  /\ UNCHANGED << cfgv, s, f, cache, lastcommand, sent, calls, fr, ret,
                  op, arg, site, pending, gf, result, wirev, known >>
  /\ \E line \in Readable(BodyLines) :
       LET data == rd.data \o line
       IN  /\ eof' = (eof \/ line = EOF)
           /\ rd' = IF eof
                    THEN \* at end of input already: one more pass changes nothing
                         rd
                    ELSE [rd EXCEPT !.data = data, !.lines = Append(rd.lines, line),
                                    !.nread = rd.nread + 1]
           /\ IF more_data(data, rd.datalen)
              THEN pc' = "body" /\ log' = <<>>
              ELSE pc' = "footer" /\ log' = length_log(data, rd.datalen)

\* footer = self._readline(); return data.rstrip()
response_footer ==
  /\ pc = "footer"
  /\ UNCHANGED << cfgv, s, f, cache, lastcommand, sent, calls, fr, log,
                  op, arg, site, pending, gf, result, known >>
  /\ \E line \in Readable(FooterLines) :
       /\ eof' = (eof \/ line = EOF)
       /\ rd' = [rd EXCEPT !.nread = rd.nread + 1]
       /\ ret' = body_value(rd.data)
       /\ pc' = "resume"
       /\ wire_conn' = WireRead(wire_conn)
       /\ wire_sess' = WireRead(wire_sess)

----------------------------------------------------------------------------
(* connect after the handshake; set_sources, get_sources                    *)

Out(status, exc, t, x) == [status |-> status, exc |-> exc, t |-> t, x |-> x]

\* _identify ignores what _response returned; connect returns self
after_identify ==
  /\ pc = "resume" /\ site = "identify"
  /\ Returns(op, arg, "self", <<>>)
  /\ UNCHANGED << cfgv, connv, cache, lastcommand, sent, calls, fr, gf, rd, ret, log,
                  wirev, known >>

\* set_sources(sources) up to its _send
set_sources ==
  /\ Begins
  /\ \E sources \in Sources :
       Sends("set_sources", [NoArg EXCEPT !.x = sources],
             cmd_set_sources(sources), "set_sources")
  /\ log' = <<>> /\ fr' = NoFr /\ gf' = NoGf
  /\ UNCHANGED << cfgv, connv, cache, lastcommand, wirev, known >>

\* if not results: return False; return results.split()
set_sources_result(results) ==
  IF ~truthy(results) THEN Out("returned", "", "bool", FALSE)
  ELSE IF results.t = "bool"
       THEN \* True has no split
            Out("raised", "AttributeError", "none", <<>>)
       ELSE Out("returned", "", "list", split(results.s))

after_set_sources ==
  /\ pc = "resume" /\ site = "set_sources"
  /\ LET o == set_sources_result(ret)
     IN  Ends(op, arg, o.status, o.exc, o.t, o.x)
  /\ UNCHANGED << cfgv, connv, cache, lastcommand, sent, calls, fr, gf, rd, ret, log,
                  wirev, known >>

\* get_sources() up to its _send
get_sources ==
  /\ Begins
  /\ Sends("get_sources", NoArg, cmd_get_sources, "get_sources")
  /\ log' = <<>> /\ fr' = NoFr /\ gf' = NoGf
  /\ UNCHANGED << cfgv, connv, cache, lastcommand, wirev, known >>

\* if not results: return False; return results
get_sources_result(results) ==
  IF ~truthy(results) THEN Out("returned", "", "bool", FALSE)
  ELSE IF results.t = "bool" THEN Out("returned", "", "bool", TRUE)
       ELSE Out("returned", "", "str", results.s)

after_get_sources ==
  /\ pc = "resume" /\ site = "get_sources"
  /\ LET o == get_sources_result(ret)
     IN  Ends(op, arg, o.status, o.exc, o.t, o.x)
  /\ UNCHANGED << cfgv, connv, cache, lastcommand, sent, calls, fr, gf, rd, ret, log,
                  wirev, known >>

----------------------------------------------------------------------------
(* get_routes_by_origin                                                     *)

\* origin = int(origin), or TypeError
origin_ok(origin) == origin.t = "int" \/ int_ok(origin.s)

origin_int(origin) == IF origin.t = "int" THEN origin.n ELSE int_val(origin.s)

\* the test "if response:" left out: False has no split
add_response_bug(routes, response) ==
  IF response.t = "bool" THEN [exc |-> "AttributeError", routes |-> routes]
  ELSE LET toks == split(response.s)
       IN  IF \E i \in 1..Len(toks) : ~IP_ok(toks[i])
           THEN [exc |-> "ValueError", routes |-> routes]
           ELSE [exc |-> "", routes |-> add_all(routes, toks)]

\* if response: for r in response.split(): routes.add(r)
add_response(routes, response) ==
  IF ~truthy(response) THEN [exc |-> "", routes |-> routes]
  ELSE IF response.t = "bool"
       THEN \* True has no split
            [exc |-> "AttributeError", routes |-> routes]
       ELSE LET toks == split(response.s)
            IN  IF \E i \in 1..Len(toks) : ~IP_ok(toks[i])
                THEN [exc |-> "ValueError", routes |-> routes]
                ELSE [exc |-> "", routes |-> add_all(routes, toks)]

\* the first character of the header of the response just read
code_of(header) == IF header = <<>> THEN "" ELSE header[1]

\* get_routes_by_origin(origin) up to its first _send, or its return from
\* the cache
get_routes_by_origin ==
  /\ Begins
  /\ log' = <<>> /\ gf' = NoGf
  /\ UNCHANGED << cfgv, connv, cache, lastcommand, wirev, known >>
  /\ \E origin \in Origins :
       LET a == [NoArg EXCEPT !.x = origin]
       IN  IF ~origin_ok(origin)
           THEN Raises("get_routes_by_origin", a, "TypeError") /\ fr' = NoFr
           ELSE LET n == origin_int(origin)
                IN  IF _is_cached(KeyInt(n))
                    THEN /\ Returns("get_routes_by_origin", a, "routes", _get_cache(KeyInt(n)))
                         /\ fr' = NoFr
                    ELSE /\ Sends("get_routes_by_origin", a, cmd_g(n), "g4")
                         /\ fr' = [NoFr EXCEPT !.origin = n, !.routes = RouteSet(aggregate)]

\* the member's routes replace the routes gathered so far
member_done_bug(g, returned) ==
  [g EXCEPT !.routes = returned, !.got = Append(g.got, returned), !.idx = g.idx + 1]

\* the loop of get_data_by_set takes what get_routes_by_origin returned
\* for the member at gf.idx:  for r in <returned>: if r: routes.add(r)
member_done(g, returned) ==
  [g EXCEPT !.routes = add_set(g.routes, iter(returned)),
            !.got = Append(g.got, returned),
            !.idx = g.idx + 1]

\* self._set_cache(origin, routes); return routes -- to the caller of the
\* public call, or into the loop of get_data_by_set
origin_done(routes) ==
  /\ cache' = _set_cache(KeyInt(fr.origin), routes)
  /\ IF op = "get_routes_by_origin"
     THEN /\ Returns(op, arg, "routes", routes)
          /\ UNCHANGED << rd, gf >>
     ELSE /\ gf' = member_done(gf, routes)
          /\ pc' = "loop" /\ site' = "none" /\ pending' = <<>>
          /\ rd' = NoRd
          /\ UNCHANGED << op, arg, result >>

\* after the response to !gAS: add its routes, then send !6AS if self.ipv6
after_g4 ==
  /\ pc = "resume" /\ site = "g4"
  /\ UNCHANGED << cfgv, connv, lastcommand, sent, calls, ret, log, wirev, known >>
  /\ LET o == add_response(fr.routes, ret)
     IN  IF o.exc # ""
         THEN Raises(op, arg, o.exc) /\ UNCHANGED << cache, fr, rd, gf >>
         ELSE /\ fr' = [fr EXCEPT !.routes = o.routes, !.r4 = ret, !.c4 = code_of(rd.header)]
              /\ IF ipv6
                 THEN /\ pc' = "send" /\ pending' = cmd_6(fr.origin) /\ site' = "g6"
                      /\ rd' = NoRd
                      /\ UNCHANGED << cache, op, arg, gf, result >>
                 ELSE origin_done(o.routes)

\* after the response to !6AS: add its routes, cache, return
after_g6 ==
  /\ pc = "resume" /\ site = "g6"
  /\ UNCHANGED << cfgv, connv, lastcommand, sent, calls, ret, log, wirev, known >>
  /\ LET o == add_response(fr.routes, ret)
     IN  IF o.exc # ""
         THEN Raises(op, arg, o.exc) /\ UNCHANGED << cache, fr, rd, gf >>
         ELSE /\ fr' = [fr EXCEPT !.routes = o.routes]
              /\ origin_done(o.routes)

----------------------------------------------------------------------------
(* get_data_by_set                                                          *)

\* get_data_by_set(s) up to its _send, or its return from the cache
\* (which holds a RouteSet, not a pair)
get_data_by_set ==
  /\ Begins
  /\ log' = <<>> /\ fr' = NoFr /\ gf' = NoGf
  /\ UNCHANGED << cfgv, connv, cache, lastcommand, wirev, known >>
  /\ \E v \in SetArgs :
       LET name == text_of(v)
           a == [x |-> name, rec |-> TRUE, key |-> key_of(v)]
       IN  IF _is_cached(a.key)
           THEN Returns("get_data_by_set", a, "routes", _get_cache(a.key))
           ELSE Sends("get_data_by_set", a, cmd_i(name, TRUE), "members")

\* asn.lstrip("AS") for one token
asn_text(tok) == lstrip(tok, {"A", "S"})

\* what get_data_by_set makes of the response to !iNAME,1:
\*   response.upper(), the tuple autnums, and the kind of object
members_outcome(response) ==
  LET none == [kind |-> "empty", exc |-> "", autnums |-> <<>>]
  IN  IF ~truthy(response) THEN none
      ELSE IF response.t = "bool"
           THEN \* True has no upper
                [none EXCEPT !.kind = "raise", !.exc = "AttributeError"]
           ELSE LET up   == upper(response.s)
                    toks == split(up)
                IN  IF \E i \in 1..Len(toks) : ~int_ok(asn_text(toks[i]))
                    THEN [none EXCEPT !.kind = "raise", !.exc = "ValueError"]
                    ELSE LET autnums == [i \in 1..Len(toks) |-> int_val(asn_text(toks[i]))]
                         IN  IF autnums = <<>> THEN none
                             ELSE IF (contains(up, <<":">>) \/ contains(up, <<".">>))
                                      /\ ~contains(up, <<"A", "S">>)
                                  THEN [none EXCEPT !.kind = "route-set", !.autnums = autnums]
                                  ELSE [none EXCEPT !.kind = "as-set", !.autnums = autnums]

\* for r in autnums: routes.add(r), r an int
RECURSIVE add_ints(_, _)
add_ints(rs, ns) ==
  IF ns = <<>> THEN rs ELSE add_ints(add_ip(rs, IP_of_int(ns[1])), Tail(ns))

\* after the response to !iNAME,1
after_members ==
  /\ pc = "resume" /\ site = "members"
  /\ UNCHANGED << cfgv, connv, lastcommand, sent, calls, ret, log, wirev, fr, known >>
  /\ LET o == members_outcome(ret)
         routes == RouteSet(aggregate)
         seen == [NoGf EXCEPT !.response = ret]
     IN  CASE o.kind = "empty" ->
                /\ Returns(op, arg, "pair", << routes, <<>> >>)
                /\ gf' = seen
                /\ UNCHANGED << cache, rd >>
           [] o.kind = "raise" ->
                /\ Raises(op, arg, o.exc)
                /\ gf' = seen
                /\ UNCHANGED << cache, rd >>
           [] o.kind = "route-set" ->
                IF \E i \in 1..Len(o.autnums) : o.autnums[i] < 0
                THEN Raises(op, arg, "ValueError") /\ gf' = seen /\ UNCHANGED << cache, rd >>
                ELSE LET filled == add_ints(routes, o.autnums)
                     IN  /\ cache' = IF len(filled) # 0
                                     THEN _set_cache(arg.key, filled)
                                     ELSE cache
                         /\ Returns(op, arg, "pair", << filled, o.autnums >>)
                         /\ gf' = seen
                         /\ UNCHANGED rd
           [] o.kind = "as-set" ->
                /\ gf' = [seen EXCEPT !.routes = routes, !.autnums = o.autnums, !.idx = 1]
                /\ pc' = "loop" /\ site' = "none" /\ pending' = <<>>
                /\ rd' = NoRd
                /\ UNCHANGED << cache, op, arg, result >>

\* for asn in autnums: for r in self.get_routes_by_origin(asn): routes.add(r)
\* -- one member: taken from the cache, or queried; and the return after
\* the last one
member_loop ==
  /\ pc = "loop"
  /\ UNCHANGED << cfgv, connv, cache, lastcommand, sent, calls, ret, log, wirev, rd >>
  /\ IF gf.idx > Len(gf.autnums)
     THEN /\ Returns(op, arg, "pair", << gf.routes, gf.autnums >>)
          /\ known' = known \cup {gf.autnums[i] : i \in 1..Len(gf.autnums)}
          /\ UNCHANGED << fr, gf >>
     ELSE LET n == gf.autnums[gf.idx]
              g == [gf EXCEPT !.invoked = Append(gf.invoked, n)]
          IN  /\ UNCHANGED known
              /\ IF _is_cached(KeyInt(n))
                 THEN /\ gf' = member_done(g, _get_cache(KeyInt(n)))
                      /\ UNCHANGED << op, arg, pc, site, pending, result, fr >>
                 ELSE /\ gf' = g
                      /\ fr' = [NoFr EXCEPT !.origin = n, !.routes = RouteSet(aggregate)]
                      /\ pc' = "send" /\ pending' = cmd_g(n) /\ site' = "g4"
                      /\ UNCHANGED << op, arg, result >>

----------------------------------------------------------------------------
(* get_members_by_set                                                       *)

get_members_by_set ==
  /\ Begins
  /\ log' = <<>> /\ fr' = NoFr /\ gf' = NoGf
  /\ UNCHANGED << cfgv, connv, cache, lastcommand, wirev, known >>
  /\ \E name \in SetNames, recursive \in BOOLEAN :
       Sends("get_members_by_set", [NoArg EXCEPT !.x = name, !.rec = recursive],
             cmd_i(name, recursive), "gmbs")

\* elements of a sequence
Range(q) == {q[i] : i \in 1..Len(q)}

\* if not response: return False; return tuple(set(response.split())) --
\* a tuple holding each element of the set once, in an order Python does
\* not fix: the value is kept as the set
\* the tokens returned as they came, duplicates and all
get_members_result_bug(response) ==
  IF ~truthy(response) THEN Out("returned", "", "bool", FALSE)
  ELSE IF response.t = "bool"
       THEN Out("raised", "AttributeError", "none", <<>>)
       ELSE Out("returned", "", "tuple", split(response.s))

get_members_result(response) ==
  IF ~truthy(response) THEN Out("returned", "", "bool", FALSE)
  ELSE IF response.t = "bool"
       THEN \* True has no split
            Out("raised", "AttributeError", "none", <<>>)
       ELSE Out("returned", "", "tuple_of_set", Range(split(response.s)))

after_members_by_set ==
  /\ pc = "resume" /\ site = "gmbs"
  /\ LET o == get_members_result(ret)
     IN  Ends(op, arg, o.status, o.exc, o.t, o.x)
  /\ UNCHANGED << cfgv, connv, cache, lastcommand, sent, calls, fr, gf, rd, ret, log,
                  wirev, known >>

----------------------------------------------------------------------------

Next ==
  \/ connect
  \/ send
  \/ response_header
  \/ response_body
  \/ response_footer
  \/ after_identify
  \/ set_sources
  \/ after_set_sources
  \/ get_sources
  \/ after_get_sources
  \/ get_routes_by_origin
  \/ after_g4
  \/ after_g6
  \/ get_data_by_set
  \/ after_members
  \/ member_loop
  \/ get_members_by_set
  \/ after_members_by_set

Spec == Init /\ [][Next]_vars

----------------------------------------------------------------------------
(* The response parser                                                      *)

RECURSIVE Flat(_)
Flat(lines) == IF lines = <<>> THEN <<>> ELSE lines[1] \o Flat(Tail(lines))

\* a response has been read to its end and nothing has been read since
ResponseRead == rd.nread >= 1 /\ pc \in {"resume", "idle"} /\ ret # NoRet

\* C1: the first character of the header selects the outcome of _response:
\* C and E return True and log nothing; D returns False after a warning that
\* carries the command sent last; F returns False after a warning that
\* carries the rest of the header; A returns the body read after the header.
C1_HeaderSelects ==
  ResponseRead =>
    LET c == code_of(rd.header)
    IN  /\ c \in {"C", "E"} => ret = PyBool(TRUE) /\ log = <<>> /\ rd.nread = 1
        /\ c = "D" =>
             /\ ret = PyBool(FALSE) /\ rd.nread = 1
             /\ log = << Entry("warning", "key not found - query: %s",
                               rstrip(sent[Len(sent)])) >>
        /\ c = "F" =>
             /\ ret = PyBool(FALSE) /\ rd.nread = 1
             /\ log = << Entry("warning", "query failed: %s", Tail(rd.header)) >>
        /\ c = "A" => ret = PyStr(rstrip(Flat(rd.lines)))

\* the second query of get_routes_by_origin was answered D: the warning
\* names !6AS..., not the !gAS... sent before it
C1_Witness ==
  /\ pc = "resume" /\ site = "g6" /\ code_of(rd.header) = "D"
  /\ Len(sent) = 2 /\ log # <<>> /\ log[1].arg = rstrip(cmd_6(fr.origin))

\* C2: for a header A<N> the body lines are read one at a time and
\* concatenated, no line is read once the length is >= N, exactly one more
\* line (the footer) is read then, whether or not the length equals N, and
\* the body is returned with trailing whitespace removed; a length mismatch
\* is logged and changes neither the value nor the number of lines read.
C2_BodyThenFooter ==
  (rd.nread >= 1 /\ code_of(rd.header) = "A" /\ int_ok(Tail(rd.header))) =>
    LET N == int_val(Tail(rd.header))
        body == rd.lines
    IN  /\ rd.data = Flat(body)
        /\ \A k \in 0..(Len(body) - 1) : Len(Flat(SubSeq(body, 1, k))) < N
        /\ pc = "body" => Len(rd.data) < N /\ rd.nread = Len(body) + 1
        /\ pc # "body" => Len(rd.data) >= N
        /\ pc = "footer" => rd.nread = Len(body) + 1
        /\ pc \notin {"body", "footer"} =>
             /\ rd.nread = Len(body) + 2
             /\ ret = PyStr(rstrip(rd.data))
             /\ (Len(rd.data) # N) =
                  (log = << Entry("error", "data read doesn't match expected length", <<>>) >>)

\* two body lines were read, their length overshoots N, and the body came
\* back all the same
C2_Witness ==
  /\ pc = "resume" /\ code_of(rd.header) = "A" /\ int_ok(Tail(rd.header))
  /\ Len(rd.lines) = 2 /\ Len(rd.data) > int_val(Tail(rd.header))
  /\ ret.t = "str" /\ ret.s # <<>> /\ log # <<>>

----------------------------------------------------------------------------
(* The cache of origins                                                     *)

\* this step ends a public call
Completes == op' = "idle" /\ (op # "idle" \/ calls' # calls)

\* this step passes a command to sendall
SendsNow == sent' # sent /\ sent' # <<>>

\* C3: with caching on, the route queries for an origin n are sent during
\* one call only, the first that returns: that call leaves n in the cache,
\* and from then on no call sends !gASn or !6ASn, every
\* get_routes_by_origin(n) returns in the step it is made, having sent no
\* command, and its value is the cached RouteSet, which never changes.
C3_QueriedOnce ==
  [][ caching =>
        /\ \A k \in DOMAIN cache :
             /\ k \in DOMAIN cache' /\ cache'[k] = cache[k]
             /\ (k.k = "int" /\ SendsNow) =>
                  sent'[Len(sent')] \notin {cmd_g(k.n), cmd_6(k.n)}
        /\ (Completes /\ result'.op = "get_routes_by_origin"
                      /\ result'.status = "returned") =>
             LET k == KeyInt(origin_int(result'.arg.x))
             IN  /\ k \in DOMAIN cache' /\ result'.x = cache'[k]
                 /\ k \in DOMAIN cache => sent' = <<>> /\ result'.x = cache[k]
        /\ (op = "idle" /\ op' = "get_routes_by_origin") =>
             KeyInt(origin_int(arg'.x)) \notin DOMAIN cache
    ]_vars

\* a later call for an origin whose routes the first call found: nothing
\* was sent and the routes came back
C3_Witness ==
  /\ caching /\ op = "idle" /\ calls = 3
  /\ result.op = "get_routes_by_origin" /\ result.status = "returned"
  /\ sent = <<>> /\ len(result.x) > 0

----------------------------------------------------------------------------
(* get_data_by_set: as-sets                                                 *)

\* a token "AS<digits>", in either case, and its number
IsAsnToken(tok) ==
  /\ Len(tok) >= 3 /\ tok[1] \in {"A", "a"} /\ tok[2] \in {"S", "s"}
  /\ all_digits(SubSeq(tok, 3, Len(tok)))

AsnOf(tok) == digits_val(SubSeq(tok, 3, Len(tok)))

\* the response to !iNAME,1 was a list of ASN tokens
AsnResponse(response) ==
  /\ response.t = "str" /\ response.s # <<>>
  /\ \A tok \in Range(split(response.s)) : IsAsnToken(tok)

AsnsOf(response) ==
  LET toks == split(response.s) IN [i \in 1..Len(toks) |-> AsnOf(toks[i])]

\* the union of RouteSets, as a RouteSet of the session's kind
UnionOf(sets) ==
  LET u4 == UNION {sets[i].ip4 : i \in 1..Len(sets)}
      u6 == UNION {sets[i].ip6 : i \in 1..Len(sets)}
  IN  [agg |-> aggregate,
       ip4 |-> IF aggregate THEN optimize(u4) ELSE u4,
       ip6 |-> IF aggregate THEN optimize(u6) ELSE u6]

\* C4: when the response to !iNAME,1 is a list of ASN tokens,
\* get_routes_by_origin is invoked for the members one after the other in
\* the order of the response (the query in flight is for the member invoked
\* last), and what get_data_by_set returns is the pair of the union of the
\* RouteSets those invocations returned and the tuple of the members'
\* numbers.
C4_AsSet ==
  ((op = "get_data_by_set" \/ (op = "idle" /\ result.op = "get_data_by_set"))
     /\ AsnResponse(gf.response)) =>
    LET members == AsnsOf(gf.response)
        n == Len(gf.invoked)
    IN  /\ n <= Len(members) /\ gf.invoked = SubSeq(members, 1, n)
        /\ site \in {"g4", "g6"} => n >= 1 /\ fr.origin = members[n]
        /\ (op = "idle" /\ result.status = "returned") =>
             /\ gf.invoked = members
             /\ Len(gf.got) = Len(members)
             /\ caching => \A i \in 1..Len(members) : gf.got[i] = cache[KeyInt(members[i])]
             /\ result.t = "pair"
             /\ result.x = << UnionOf(gf.got), members >>

\* "as2 AS1": AS2 originates 2.0.0.0/8 and AS1 3.0.0.0/8 (or the reverse),
\* and the aggregated union is the one prefix 2.0.0.0/7
C4_Witness ==
  /\ op = "idle" /\ result.op = "get_data_by_set" /\ result.status = "returned"
  /\ AsnResponse(gf.response) /\ result.x[2] = <<2, 1>>
  /\ Len(gf.got) = 2 /\ gf.got[1] # gf.got[2]
  /\ len(gf.got[1]) = 1 /\ len(gf.got[2]) = 1
  /\ aggregate /\ len(result.x[1]) = 1

----------------------------------------------------------------------------
(* get_data_by_set: route-sets, and what it caches                          *)

\* the uppercased response has ':' or '.' in it and no "AS", and each of
\* its tokens is a prefix
PrefixResponse(response) ==
  /\ response.t = "str" /\ response.s # <<>>
  /\ LET up == upper(response.s)
     IN  /\ contains(up, <<":">>) \/ contains(up, <<".">>)
         /\ ~contains(up, <<"A", "S">>)
  /\ \A tok \in Range(split(response.s)) : IP_ok(tok)

\* C5: when the uppercased response to !iNAME,1 has ':' or '.' in it and no
\* "AS", get_data_by_set returns a RouteSet made of the tokens of the
\* response, each added as a prefix, and has sent the members query only.
C5_RouteSet ==
  (op = "idle" /\ result.op = "get_data_by_set" /\ PrefixResponse(gf.response)) =>
    /\ result.status = "returned"
    /\ result.t = "pair"
    /\ result.x[1] = add_all(RouteSet(aggregate), split(gf.response.s))
    /\ sent = << cmd_i(result.arg.x, TRUE) >>

----------------------------------------------------------------------------
(* The order of sends and reads                                             *)

----------------------------------------------------------------------------
(* Failures                                                                 *)

Malformed(header) ==
  \/ header = <<>>
  \/ header[1] \notin {"C", "D", "E", "F", "A"}
  \/ header[1] = "A" /\ ~int_ok(Tail(header))

\* C8: when the header read is empty, or begins with none of C, D, E, F, A,
\* or is an A whose rest is no number, _response logs an error and returns
\* False, and the call raises nothing.
C8_MalformedHeader ==
  (rd.nread >= 1 /\ Malformed(rd.header)) =>
    /\ ret = PyBool(FALSE)
    /\ log # <<>> /\ log[1].level = "error"
    /\ ~(op = "idle" /\ result.status = "raised")

\* C9: a connect() that could not open the connection has sent nothing,
\* logged an error and returned False; it has not raised.
C9_ConnectFails ==
  (op = "idle" /\ result.op = "connect" /\ sent = <<>>) =>
    /\ result.status = "returned"
    /\ result.t = "bool" /\ result.x = FALSE
    /\ log # <<>> /\ log[1].level = "error"

NotFound == {"D", "F"}

\* the routes of one response of a route query
RoutesOf(response) ==
  IF truthy(response) THEN add_all(RouteSet(aggregate), split(response.s))
  ELSE RouteSet(aggregate)

----------------------------------------------------------------------------
(* A write that fails                                                       *)

WriteError == << Entry("error", "Unexpected write error: %s", <<>>) >>

\* sendall has just raised socket.error on the command of a query: _send
\* logged it and returned False, and its caller stands before _response
WriteFailed == pc = "header" /\ op # "connect" /\ log = WriteError

\* the failure/empty value of a public operation
FailureValue(r) ==
  /\ r.status = "returned"
  /\ \/ r.t = "bool" /\ r.x = FALSE
     \/ r.t = "routes" /\ len(r.x) = 0
     \/ r.t = "pair" /\ len(r.x[1]) = 0 /\ r.x[2] = <<>>

\* C11: when the write of a query's command fails, _send has recorded the
\* command as the last command and logged the error without raising, and
\* the operation that issued the command ends by returning its
\* failure/empty value (here: whenever it ends at its very next step).
C11_WriteFails ==
  [][ WriteFailed =>
        /\ sent # <<>> /\ lastcommand = rstrip(sent[Len(sent)])
        /\ op' = "idle" => FailureValue(result')
    ]_vars

----------------------------------------------------------------------------
(* The route queries of get_routes_by_origin                                *)

Is6Query(cmd) == Len(cmd) >= 4 /\ SubSeq(cmd, 1, 4) = <<"!", "6", "A", "S">>

\* C12: a get_routes_by_origin(n) that missed the cache and returned has
\* sent !gASn and then, if and only if the session was constructed with
\* ipv6 enabled, !6ASn; a session constructed with ipv6 disabled sends no
\* !6AS command at all.
C12_Ipv6Query ==
  /\ ~ipv6_arg => \A i \in 1..Len(sent) : ~Is6Query(sent[i])
  /\ (op = "idle" /\ result.op = "get_routes_by_origin"
        /\ result.status = "returned" /\ sent # <<>>) =>
       LET n == origin_int(result.arg.x)
       IN  sent = IF ipv6_arg THEN << cmd_g(n), cmd_6(n) >> ELSE << cmd_g(n) >>

----------------------------------------------------------------------------
(* Validation of the origin                                                 *)

\* C13: get_routes_by_origin with an origin that int() rejects raises
\* TypeError in the step that begins the call: nothing is sent, nothing is
\* read, and the cache, the last command and the connection are as before.
C13_OriginValidated ==
  [][ (Completes /\ result'.op = "get_routes_by_origin" /\ ~origin_ok(result'.arg.x)) =>
        /\ op = "idle"
        /\ result'.status = "raised" /\ result'.exc = "TypeError"
        /\ sent' = <<>>
        /\ rd' = NoRd
        /\ cache' = cache
        /\ lastcommand' = lastcommand
        /\ UNCHANGED << connv, wirev >>
    ]_vars

\* "notanumber" was refused on a connected session with an origin cached
C13_Witness ==
  /\ op = "idle" /\ result.op = "get_routes_by_origin"
  /\ ~origin_ok(result.arg.x) /\ result.exc = "TypeError"
  /\ s = "socket" /\ lastcommand # NoCommand
  /\ caching /\ DOMAIN cache # {}

----------------------------------------------------------------------------
(* What get_data_by_set returns                                             *)

\* C14: every return of get_data_by_set is a pair (RouteSet, tuple of
\* member ASNs), a return from the cache included.
C14_ReturnsPair ==
  (op = "idle" /\ result.op = "get_data_by_set" /\ result.status = "returned") =>
    /\ result.t = "pair"
    /\ result.x[1].agg = aggregate
    /\ \A i \in 1..Len(result.x[2]) : result.x[2][i] \in Int

----------------------------------------------------------------------------
(* get_members_by_set                                                       *)

\* C15: get_members_by_set(name, recursive) goes straight to sending
\* !iNAME,1 if recursive and !iNAME if not, and sends nothing else; no step
\* of it changes the cache; on a response with data it returns the tokens
\* of the response, each distinct token once, and on an empty or failed
\* response it returns False.
C15_Members ==
  [][ /\ (op = "get_members_by_set" \/ op' = "get_members_by_set") => cache' = cache
      /\ (op = "idle" /\ op' = "get_members_by_set") =>
           /\ pc' = "send" /\ sent' = <<>>
           /\ pending' = <<"!", "i">> \o arg'.x
                           \o (IF arg'.rec THEN <<",", "1", "\n">> ELSE <<"\n">>)
      /\ (op = "get_members_by_set" /\ op' = "idle" /\ rd'.nread >= 1) =>
           /\ sent' = << <<"!", "i">> \o result'.arg.x
                           \o (IF result'.arg.rec THEN <<",", "1", "\n">> ELSE <<"\n">>) >>
           /\ (ret'.t = "str" /\ ret'.s # <<>>) =>
                /\ result'.status = "returned" /\ result'.t = "tuple_of_set"
                /\ result'.x = Range(split(ret'.s))
           /\ (ret' = PyBool(FALSE) \/ (ret'.t = "str" /\ ret'.s = <<>>)) =>
                /\ result'.status = "returned"
                /\ result'.t = "bool" /\ result'.x = FALSE
    ]_vars

\* a plain members query answered with the same token twice
C15_Witness ==
  /\ op = "idle" /\ result.op = "get_members_by_set" /\ result.status = "returned"
  /\ ~result.arg.rec
  /\ ret.t = "str" /\ Len(split(ret.s)) = 2
  /\ result.t = "tuple_of_set" /\ Cardinality(result.x) = 1

----------------------------------------------------------------------------
(* set_sources and get_sources                                              *)

\* C16: set_sources and get_sources alike return the list of the
\* whitespace-separated tokens of a response with data, and False on an
\* empty or failed response.
C16_SourcesSplit ==
  (op = "idle" /\ result.op \in {"set_sources", "get_sources"} /\ rd.nread >= 1) =>
    /\ (ret.t = "str" /\ ret.s # <<>>) =>
         /\ result.status = "returned"
         /\ result.t = "list"
         /\ result.x = split(ret.s)
    /\ (ret = PyBool(FALSE) \/ (ret.t = "str" /\ ret.s = <<>>)) =>
         /\ result.status = "returned"
         /\ result.t = "bool" /\ result.x = FALSE


\* C17: the one command set_sources(SOURCES) passes to sendall is "!s",
\* SOURCES and the terminator; the one get_sources() passes is "!s-lc" and
\* the terminator.
C17_SourceCommands ==
  (op = "idle" /\ sent # <<>>) =>
    /\ result.op = "set_sources" => sent = << <<"!", "s">> \o result.arg.x \o <<"\n">> >>
    /\ result.op = "get_sources" => sent = << <<"!", "s", "-", "l", "c", "\n">> >>

----------------------------------------------------------------------------
(* RouteSet: add and contains                                               *)

\* the literals the last response of a returned get_routes_by_origin held,
\* each of which was passed to add
Added == IF truthy(ret) THEN Range(split(ret.s)) ELSE {}

\* C18: in an aggregating RouteSet and in a plain one, after add(P) for a
\* prefix literal P, contains(P) is true.
C18_AddThenContains ==
  (op = "idle" /\ result.op = "get_routes_by_origin" /\ result.status = "returned"
     /\ Len(sent) = 2) =>
    \A P \in Added : __contains__(result.x, StrItem(P)) = {"True"}

----------------------------------------------------------------------------
(* Empty results in the cache                                               *)

NoData(response) == response = PyBool(FALSE) \/ response = PyStr(<<>>)

\* C19: with caching on, a get_routes_by_origin(n) that missed the cache
\* and returned has stored what it returns under n, and when both its
\* queries were answered D, F or with an empty body it does return, and
\* stores the empty RouteSet; no step replaces or removes an entry; and a
\* call for an n that has an entry, empty or not, returns that entry at
\* once and sends nothing.
C19_EmptyCached ==
  [][ caching =>
        /\ \A k \in DOMAIN cache : k \in DOMAIN cache' /\ cache'[k] = cache[k]
        /\ (op = "get_routes_by_origin" /\ pc = "resume" /\ site = "g6"
              /\ NoData(fr.r4) /\ NoData(ret)) =>
             /\ op' = "idle" /\ result'.status = "returned"
             /\ result'.x = RouteSet(aggregate)
        /\ (op = "get_routes_by_origin" /\ op' = "idle" /\ result'.status = "returned") =>
             LET k == KeyInt(origin_int(result'.arg.x))
             IN  k \in DOMAIN cache' /\ cache'[k] = result'.x
        /\ (op = "idle" /\ calls' # calls) =>
             \A origin \in Origins :
               (origin_ok(origin) /\ KeyInt(origin_int(origin)) \in DOMAIN cache
                  /\ (op' = "get_routes_by_origin" \/ result'.op = "get_routes_by_origin")
                  /\ (IF op' = "idle" THEN result'.arg.x ELSE arg'.x) = origin) =>
                 /\ op' = "idle" /\ result'.status = "returned"
                 /\ result'.x = cache[KeyInt(origin_int(origin))]
                 /\ sent' = <<>>
    ]_vars

\* the third call is for an origin whose two queries the second call saw
\* answered with nothing: the empty set came from the cache, nothing sent
C19_Witness ==
  /\ caching /\ calls = 3 /\ op = "idle"
  /\ result.op = "get_routes_by_origin" /\ result.status = "returned"
  /\ sent = <<>>
  /\ len(result.x) = 0
  /\ KeyInt(origin_int(result.arg.x)) \in DOMAIN cache
  /\ len(cache[KeyInt(origin_int(result.arg.x))]) = 0

----------------------------------------------------------------------------
(* The body loop                                                            *)

\* C20: every pass of the body loop of _response makes the data read so
\* far strictly longer, so that for a header A<N> the loop has read at
\* most N lines when it ends, at end of input too.
C20_BodyLoopAdvances ==
  [][ pc = "body" =>
        /\ Len(rd'.data) > Len(rd.data)
        /\ Len(rd'.lines) <= rd.datalen
    ]_vars

====
